---- MODULE Spec2Model ----
(***************************************************************************)
(* A model of the secure-notes Flask service (src/app.py): the user and    *)
(* note collections, the JWT session cookie, and the handlers register,    *)
(* login, logout, dashboard, notes and note_detail.  A handler that makes  *)
(* two separate storage calls (register: find_one then insert_one;         *)
(* note_detail: find_one then update_one / delete_one) is two steps, so    *)
(* that concurrent requests interleave between the storage calls.          *)
(***************************************************************************)
EXTENDS Integers, Naturals, Sequences, FiniteSets, TLC

(***************************************************************************)
(* Bounds of the model.                                                    *)
(***************************************************************************)
NumProcs == 2        \* concurrent clients (browsers), each with a cookie jar
MaxUsers == 2        \* user documents ever inserted
MaxNotes == 2        \* note documents ever inserted
MaxTokens == 2       \* tokens ever issued by login
TicksPerSec == 2     \* clock ticks in one second (the clock is finer than a second)
TokenLife == 1       \* JWT_EXPIRATION_DELTA (24 hours), scaled to this many seconds

MaxTime == TicksPerSec * TokenLife
Procs == 1 .. NumProcs

(***************************************************************************)
(* Program constants.                                                      *)
(***************************************************************************)
MinUsernameLen == 3
MaxUsernameLen == 50
MinPasswordLen == 6
MaxContentLen == 10000
MaxTitleLen == 200
MaxPerPage == 100
DefaultPerPage == 20

(***************************************************************************)
(* Strings.  A string is leading whitespace, a core text that neither      *)
(* starts nor ends with whitespace (named, with its length), trailing      *)
(* whitespace.  len and strip are Python's len() and str.strip().          *)
(***************************************************************************)
Str(core, n) == [lead |-> 0, core |-> core, n |-> n, trail |-> 0]
Padded(s) == [s EXCEPT !.lead = 1, !.trail = 1]
Empty == Str("", 0)
len(s) == s.lead + s.n + s.trail
strip(s) == [s EXCEPT !.lead = 0, !.trail = 0]

Min(a, b) == IF a < b THEN a ELSE b

(***************************************************************************)
(* werkzeug.security: a salted one-way hash.  The digest is modelled as    *)
(* the (injective) pairing of salt and password; check_password_hash       *)
(* recomputes the digest under the stored salt and compares.  The random   *)
(* salt of generate_password_hash is a fresh value: the number of the      *)
(* hash.                                                                   *)
(***************************************************************************)
Digest(salt, password) == <<"pbkdf2", salt, password>>
generate_password_hash(password, salt) ==
    [salt |-> salt, digest |-> Digest(salt, password)]
check_password_hash(pwhash, password) ==
    pwhash.digest = Digest(pwhash.salt, password)

(***************************************************************************)
(* bson ObjectId and its string form: str(oid) is the 24 hex digits,       *)
(* ObjectId(s) parses them back and raises on any other string.            *)
(***************************************************************************)
OidStr(oid) == [hex |-> oid]
NotAnOid == [hex |-> 0]
IsOidStr(s) == s.hex > 0
ObjectId(s) == s.hex

(***************************************************************************)
(* The session token.  jwt.encode turns the datetime 'exp' into a JWT      *)
(* NumericDate, whole seconds (timegm(utctimetuple()): the fraction of the *)
(* second is dropped); jwt.decode (PyJWT 2) verifies the signature, then   *)
(* raises ExpiredSignatureError when exp <= now.                           *)
(***************************************************************************)
SECRET_KEY == "secret"
JWT_EXPIRATION_DELTA == TokenLife * TicksPerSec       \* in ticks
NoToken == [kind |-> "none"]
Malformed == [kind |-> "garbage"]
NumericDate(t) == t \div TicksPerSec
jwt_encode(user_id, exp, key) ==
    [kind |-> "jwt", user_id |-> user_id, exp |-> NumericDate(exp), key |-> key]
\* (mutant of jwt_decode: the signature is not verified)
jwt_decode_unverified(token, key, t) ==
    IF token.kind # "jwt" THEN [status |-> "invalid"]
    ELSE IF token.exp * TicksPerSec <= t THEN [status |-> "expired"]
    ELSE [status |-> "ok", user_id |-> token.user_id]
\* (mutant of jwt_decode: a token is still accepted at its expiry instant)
jwt_decode_late(token, key, t) ==
    IF token.kind # "jwt" THEN [status |-> "invalid"]
    ELSE IF token.key # key THEN [status |-> "invalid"]
    ELSE IF token.exp * TicksPerSec < t THEN [status |-> "expired"]
    ELSE [status |-> "ok", user_id |-> token.user_id]
jwt_decode(token, key, t) ==
    IF token.kind # "jwt" THEN [status |-> "invalid"]
    ELSE IF token.key # key THEN [status |-> "invalid"]
    ELSE IF token.exp * TicksPerSec <= t THEN [status |-> "expired"]
    ELSE [status |-> "ok", user_id |-> token.user_id]

(***************************************************************************)
(* token_required: the user id (a string) the wrapped handler is called    *)
(* with, or NotAnOid when the guard answers with the redirect to login     *)
(* instead of calling the handler.                                         *)
(***************************************************************************)
token_required(token, t) ==
    IF token = NoToken THEN NotAnOid
    ELSE LET data == jwt_decode(token, SECRET_KEY, t)
         IN  IF data.status = "ok" THEN data.user_id ELSE NotAnOid

(***************************************************************************)
(* Responses.                                                              *)
(***************************************************************************)
Keep == [kind |-> "keep"]                      \* no Set-Cookie header
NoResp == [status |-> 0]                       \* the request is still being handled
Error(status, text) ==
    [status |-> status, body |-> [error |-> text], cookie |-> Keep]
Message(status, text) ==
    [status |-> status, body |-> [message |-> text], cookie |-> Keep]
RedirectLogin == [status |-> 302, body |-> [location |-> "/login"], cookie |-> Keep]

VARIABLES
    users,       \* mongo.db.users, in insertion order; _id is the position
    notes,       \* mongo.db.notes, in insertion order
    nextNoteId,  \* the next ObjectId of a note (ids are never reused)
    now,         \* datetime.utcnow(), in ticks
    cookie,      \* each client's cookie 'token'
    issued,      \* history: every token login has issued, with its user and issue time
    pc,          \* each client's request: "idle", or the storage call it is about to make
    req,         \* each client's request in progress
    last,        \* the response on its way to its client, with the request it answers
    accepted,    \* history: the username and password of every registration answered 201
    author       \* history: author[i] is the user whose request created note i

vars == <<users, notes, nextNoteId, now, cookie, issued, pc, req, last, accepted, author>>

(***************************************************************************)
(* Storage queries.                                                        *)
(***************************************************************************)
NoDoc == [_id |-> 0]
\* (mutant of FindUser: the filter names a field no document has)
FindUserWrongField(us, username) == NoDoc
\* find_one({'username': username}): the first match in natural order
FindUser(us, username) ==
    LET hits == {i \in 1 .. Len(us) : us[i].username = username}
    IN  IF hits = {} THEN NoDoc
        ELSE us[CHOOSE i \in hits : \A j \in hits : i <= j]
\* (mutant of FindNote: the owner is left out of the filter)
FindNoteAnyOwner(ns, note_id, user_id) ==
    LET hits == {i \in 1 .. Len(ns) : ns[i]._id = note_id}
    IN  IF hits = {} THEN NoDoc ELSE ns[CHOOSE i \in hits : TRUE]
\* find_one({'_id': note_id, 'user_id': user_id})
FindNote(ns, note_id, user_id) ==
    LET hits == {i \in 1 .. Len(ns) : ns[i]._id = note_id /\ ns[i].user_id = user_id}
    IN  IF hits = {} THEN NoDoc ELSE ns[CHOOSE i \in hits : TRUE]

NoRequest == [op |-> "none", resp |-> NoResp]

Init ==
    /\ users = <<>>
    /\ notes = <<>>
    /\ nextNoteId = 1
    /\ now = 0
    /\ cookie = [p \in Procs |-> NoToken]
    /\ issued = {}
    /\ pc = [p \in Procs |-> "idle"]
    /\ req = [p \in Procs |-> NoRequest]
    /\ last = NoRequest
    /\ accepted = {}
    /\ author = <<>>

\* a client sends a request, or its handler goes on, once the response before has arrived
Ready(p, step) == last = NoRequest /\ pc[p] = step

\* the response is sent: the request is over
Respond(p, request, response) ==
    /\ last' = [request EXCEPT !.resp = response] @@ [client |-> p]
    /\ pc' = [pc EXCEPT ![p] = "idle"]
    /\ req' = [req EXCEPT ![p] = NoRequest]

\* the client receives the response and stores the cookie it sets
Receive(p) ==
    /\ last # NoRequest
    /\ last.client = p
    /\ cookie' = IF last.resp.cookie = Keep THEN cookie
                 ELSE [cookie EXCEPT ![p] = last.resp.cookie]
    /\ last' = NoRequest
    /\ UNCHANGED <<users, notes, nextNoteId, now, issued, pc, req, accepted, author>>

\* the handler goes on to its next storage call
Continue(p, request, step) ==
    /\ req' = [req EXCEPT ![p] = request]
    /\ pc' = [pc EXCEPT ![p] = step]
    /\ UNCHANGED last

Tick ==
    /\ last = NoRequest
    /\ now < MaxTime
    /\ now' = now + 1
    /\ UNCHANGED <<users, notes, nextNoteId, cookie, issued, pc, req, last, accepted, author>>

(***************************************************************************)
(* Request inputs.                                                         *)
(***************************************************************************)
Alice == Str("alice", 5)
Bob == Str("bob", 3)
UsernameInputs == {Alice, Padded(Alice), Bob, Str("al", 2), Str("long", 51), Empty}
Secret1 == Str("secret1", 7)
Secret2 == Str("secret2", 7)
PasswordInputs == {Secret1, Secret2, Str("abc", 3), Empty}

(***************************************************************************)
(* POST /register.                                                         *)
(***************************************************************************)
\* (mutant of RegisterValidation: the length of the username is not checked)
RegisterValidationLax(username, password) ==
    IF len(username) = 0 \/ len(password) = 0
    THEN Error(400, "Username and password required")
    ELSE IF len(password) < MinPasswordLen
    THEN Error(400, "Password must be at least 6 characters")
    ELSE NoResp
\* the input validation: the 400 it answers, or NoResp when the input passes
RegisterValidation(username, password) ==
    IF len(username) = 0 \/ len(password) = 0
    THEN Error(400, "Username and password required")
    ELSE IF len(username) < MinUsernameLen \/ len(username) > MaxUsernameLen
    THEN Error(400, "Username must be 3-50 characters")
    ELSE IF len(password) < MinPasswordLen
    THEN Error(400, "Password must be at least 6 characters")
    ELSE NoResp

Inserting == Cardinality({q \in Procs : pc[q] = "register_insert"})

\* the request up to and including find_one
RegisterCheck(p, rawname, password) ==
    /\ Ready(p, "idle")
    /\ LET username == strip(rawname)
           request == [op |-> "register", raw |-> rawname, username |-> username,
                       password |-> password, resp |-> NoResp]
           invalid == RegisterValidation(username, password)
       IN  IF invalid # NoResp
           THEN Respond(p, request, invalid)
           ELSE IF FindUser(users, username) # NoDoc
           THEN Respond(p, request, Error(400, "Username already exists"))
           ELSE /\ Len(users) + Inserting < MaxUsers
                /\ Continue(p, request, "register_insert")
    /\ UNCHANGED <<users, notes, nextNoteId, now, cookie, issued, accepted, author>>

\* (mutant of RegisterInsert: the document is written with replace_one(upsert))
RegisterUpsert(p) ==
    /\ Ready(p, "register_insert")
    /\ LET doc == [_id |-> Len(users) + 1,
                   username |-> req[p].username,
                   password |-> generate_password_hash(req[p].password, Len(users) + 1),
                   created_at |-> now]
       IN  users' = IF FindUser(users, req[p].username) = NoDoc
                    THEN Append(users, doc)
                    ELSE [i \in 1 .. Len(users) |->
                            IF users[i].username = req[p].username
                            THEN [doc EXCEPT !._id = i] ELSE users[i]]
    /\ Respond(p, req[p], Message(201, "User created successfully"))
    /\ accepted' = accepted \cup {[username |-> req[p].username,
                                   password |-> req[p].password]}
    /\ UNCHANGED <<notes, nextNoteId, now, cookie, issued, author>>
\* generate_password_hash, insert_one and the 201
RegisterInsert(p) ==
    /\ Ready(p, "register_insert")
    /\ users' = Append(users,
                       [_id |-> Len(users) + 1,
                        username |-> req[p].username,
                        password |-> generate_password_hash(req[p].password, Len(users) + 1),
                        created_at |-> now])
    /\ Respond(p, req[p], Message(201, "User created successfully"))
    /\ accepted' = accepted \cup {[username |-> req[p].username,
                                   password |-> req[p].password]}
    /\ UNCHANGED <<notes, nextNoteId, now, cookie, issued, author>>

(***************************************************************************)
(* POST /login and GET /logout.                                            *)
(***************************************************************************)
\* (mutant of InvalidCredentials: an unknown username is told apart)
InvalidCredentialsTelling(user) ==
    IF user = NoDoc THEN Error(404, "User not found")
    ELSE Error(401, "Invalid credentials")
\* the answer to a failed login, whether the user is missing or the password wrong
InvalidCredentials(user) == Error(401, "Invalid credentials")

Login(p, rawname, password) ==
    /\ Ready(p, "idle")
    /\ LET username == strip(rawname)
           request == [op |-> "login", username |-> username,
                       password |-> password, at |-> now, resp |-> NoResp]
           user == FindUser(users, username)
       IN  IF len(username) = 0 \/ len(password) = 0
           THEN /\ Respond(p, request, Error(400, "Username and password required"))
                /\ UNCHANGED issued
           ELSE IF user # NoDoc /\ check_password_hash(user.password, password)
           THEN LET token == jwt_encode(OidStr(user._id), now + JWT_EXPIRATION_DELTA, SECRET_KEY)
                    grant == [token |-> token, user_id |-> user._id, at |-> now]
                IN  /\ grant \in issued \/ Cardinality(issued) < MaxTokens
                    /\ issued' = issued \cup {grant}
                    /\ Respond(p, request,
                               [Message(200, "Login successful") EXCEPT !.cookie = token])
           ELSE /\ Respond(p, request, InvalidCredentials(user))
                /\ UNCHANGED issued
    /\ UNCHANGED <<users, notes, nextNoteId, now, cookie, accepted, author>>

Logout(p) ==
    /\ Ready(p, "idle")
    /\ Respond(p, [op |-> "logout", resp |-> NoResp],
               [RedirectLogin EXCEPT !.cookie = NoToken])
    /\ UNCHANGED <<users, notes, nextNoteId, now, cookie, issued, accepted, author>>

(***************************************************************************)
(* The guarded endpoints.  A client presents its cookie, a token issued    *)
(* earlier (kept or stolen), a token signed with another key, or garbage.  *)
(***************************************************************************)
Forged == {[kind |-> "jwt", user_id |-> OidStr(1), exp |-> NumericDate(MaxTime) + 1,
            key |-> "attacker"]}
OwnTokens(p) == {cookie[p], NoToken, Malformed} \cup Forged
TokenInputs(p) == OwnTokens(p) \cup {g.token : g \in issued}

\* (mutant of Guarded: a token is accepted only while it is a client's cookie,
\* as if logout revoked it)
GuardedSession(op, token, args) ==
    [op |-> op, token |-> token, at |-> now,
     current_user_id |-> IF \E q \in Procs : cookie[q] = token
                         THEN token_required(token, now) ELSE NotAnOid,
     args |-> args, resp |-> NoResp]
Guarded(op, token, args) ==
    [op |-> op, token |-> token, at |-> now,
     current_user_id |-> token_required(token, now), args |-> args, resp |-> NoResp]

\* GET /dashboard
Dashboard(p, token) ==
    /\ Ready(p, "idle")
    /\ LET request == Guarded("dashboard", token, <<>>)
       IN  IF request.current_user_id = NotAnOid
           THEN Respond(p, request, RedirectLogin)
           ELSE Respond(p, request, [status |-> 200, body |-> [page |-> "dashboard.html"],
                                     cookie |-> Keep])
    /\ UNCHANGED <<users, notes, nextNoteId, now, cookie, issued, accepted, author>>

(***************************************************************************)
(* JSON bodies of POST /api/notes and PUT /api/notes/<id>: the keys        *)
(* present, and their values.                                              *)
(***************************************************************************)
Json(keys, title, content) == [keys |-> keys, title |-> title, content |-> content]
Get(data, key, default) == IF key \in data.keys THEN data[key] ELSE default
Hi == Str("hi", 2)
Title == Str("t", 1)
LongTitle == Str("longtitle", MaxTitleLen + 1)
Big == Str("big", MaxContentLen + 1)
NoBody == Json({}, Empty, Empty)
PostBodies ==
    { NoBody,
      Json({"content"}, Empty, Hi),
      Json({"title", "content"}, Title, Padded(Hi)),
      Json({"content"}, Empty, Empty),
      Json({"content"}, Empty, Big),
      Json({"title", "content"}, LongTitle, Hi) }
PutBodies ==
    { NoBody,
      Json({"title"}, Title, Empty),
      Json({"title", "content"}, LongTitle, Big) }

\* POST /api/notes: the 400 it answers, or NoResp when the body passes
NoteValidation(data) ==
    LET title == strip(Get(data, "title", Empty))
        content == strip(Get(data, "content", Empty))
    IN  IF data.keys = {} THEN Error(400, "Invalid JSON data")
        ELSE IF len(content) = 0 THEN Error(400, "Content is required")
        ELSE IF len(content) > MaxContentLen
        THEN Error(400, "Content too long (max 10,000 characters)")
        ELSE IF len(title) > MaxTitleLen
        THEN Error(400, "Title too long (max 200 characters)")
        ELSE NoResp

\* the two datetime.utcnow() calls of the insert: the clock may advance between them
NotesPost(p, token, data, elapsed) ==
    /\ Ready(p, "idle")
    /\ LET request == Guarded("create", token, data)
           invalid == NoteValidation(data)
       IN  IF request.current_user_id = NotAnOid
           THEN /\ Respond(p, request, RedirectLogin)
                /\ elapsed = 0
                /\ UNCHANGED <<notes, nextNoteId, now, author>>
           ELSE IF invalid # NoResp
           THEN /\ Respond(p, request, invalid)
                /\ elapsed = 0
                /\ UNCHANGED <<notes, nextNoteId, now, author>>
           ELSE /\ nextNoteId <= MaxNotes
                /\ now + elapsed <= MaxTime
                /\ notes' = Append(notes,
                       [_id |-> nextNoteId,
                        user_id |-> ObjectId(request.current_user_id),
                        title |-> strip(Get(data, "title", Empty)),
                        content |-> strip(Get(data, "content", Empty)),
                        created_at |-> now,
                        updated_at |-> now + elapsed])
                /\ nextNoteId' = nextNoteId + 1
                /\ author' = Append(author, ObjectId(token.user_id))
                /\ now' = now + elapsed
                /\ Respond(p, request,
                           [status |-> 201,
                            body |-> [message |-> "Note created",
                                      note_id |-> OidStr(nextNoteId)],
                            cookie |-> Keep])
    /\ UNCHANGED <<users, cookie, issued, accepted>>

(***************************************************************************)
(* GET /api/notes: find(...).sort('updated_at', -1).skip(...).limit(...).  *)
(* The sort is stable and descending: the matches updated at the latest    *)
(* tick in natural order, then those of the tick before, and so on.        *)
(* Cursor.skip raises ValueError below 0; a limit of 0 is no limit and a   *)
(* negative limit is its absolute value.                                   *)
(***************************************************************************)
RECURSIVE SortFrom(_, _)
SortFrom(docs, t) ==
    LET At(doc) == doc.updated_at = t
    IN  IF t < 0 THEN <<>> ELSE SelectSeq(docs, At) \o SortFrom(docs, t - 1)
\* (mutant of SortByUpdatedDesc: the matches are left in natural order)
Unsorted(docs) == docs
SortByUpdatedDesc(docs) == SortFrom(docs, MaxTime)

FindByUser(ns, user_id) ==
    LET Owned(doc) == doc.user_id = user_id
    IN  SelectSeq(ns, Owned)

Skip(docs, n) == SubSeq(docs, n + 1, Len(docs))
Limit(docs, n) ==
    IF n = 0 THEN docs
    ELSE SubSeq(docs, 1, Min(IF n < 0 THEN -n ELSE n, Len(docs)))

\* the projection, with _id converted to its string
Projected(doc) ==
    [_id |-> OidStr(doc._id), title |-> doc.title, content |-> doc.content,
     created_at |-> doc.created_at, updated_at |-> doc.updated_at]

\* (mutant of PerPage: the page size is not clamped)
PerPageUnclamped(per_page) == per_page
PerPage(per_page) == Min(per_page, MaxPerPage)

NotesList(ns, current_user_id, page, per_page_arg) ==
    LET per_page == PerPage(per_page_arg)
        skip == (page - 1) * per_page
        found == Limit(Skip(SortByUpdatedDesc(FindByUser(ns, ObjectId(current_user_id))),
                            skip),
                       per_page)
    IN  IF skip < 0 THEN Error(500, "Operation failed")
        ELSE [status |-> 200,
              body |-> [notes |-> [i \in 1 .. Len(found) |-> Projected(found[i])]],
              cookie |-> Keep]

NotesGet(p, token, page, per_page) ==
    /\ Ready(p, "idle")
    /\ LET request == Guarded("list", token, [page |-> page, per_page |-> per_page])
       IN  IF request.current_user_id = NotAnOid
           THEN Respond(p, request, RedirectLogin)
           ELSE Respond(p, request, NotesList(notes, request.current_user_id, page, per_page))
    /\ UNCHANGED <<users, notes, nextNoteId, now, cookie, issued, accepted, author>>

(***************************************************************************)
(* PUT and DELETE /api/notes/<note_id>.                                    *)
(***************************************************************************)
\* the request up to and including find_one
NoteDetailFind(p, token, method, note_id, data) ==
    /\ Ready(p, "idle")
    /\ LET request == Guarded(method, token, [note_id |-> note_id, data |-> data])
       IN  IF request.current_user_id = NotAnOid
           THEN Respond(p, request, RedirectLogin)
           ELSE IF ~IsOidStr(note_id)
           THEN Respond(p, request, Error(400, "Invalid note ID"))
           ELSE IF FindNote(notes, ObjectId(note_id),
                            ObjectId(request.current_user_id)) = NoDoc
           THEN Respond(p, request, Error(404, "Note not found"))
           ELSE Continue(p, [op |-> method, token |-> token,
                             current_user_id |-> request.current_user_id,
                             args |-> request.args, resp |-> NoResp],
                         IF method = "PUT" THEN "update_one" ELSE "delete_one")
    /\ UNCHANGED <<users, notes, nextNoteId, now, cookie, issued, accepted, author>>

\* (mutant of UpdateOne: the document is replaced, absent fields are lost)
UpdateOneReplacing(ns, id, update_data) ==
    [i \in 1 .. Len(ns) |->
        IF ns[i]._id # id THEN ns[i]
        ELSE [ns[i] EXCEPT
                !.updated_at = update_data.updated_at,
                !.title = Get(update_data, "title", Empty),
                !.content = Get(update_data, "content", Empty)]]
\* (mutant of UpdateOne: the content of the update is not written)
UpdateOneTitleOnly(ns, id, update_data) ==
    [i \in 1 .. Len(ns) |->
        IF ns[i]._id # id THEN ns[i]
        ELSE [ns[i] EXCEPT
                !.updated_at = update_data.updated_at,
                !.title = Get(update_data, "title", @)]]
\* update_one({'_id': id}, {'$set': update_data})
UpdateOne(ns, id, update_data) ==
    [i \in 1 .. Len(ns) |->
        IF ns[i]._id # id THEN ns[i]
        ELSE [ns[i] EXCEPT
                !.updated_at = update_data.updated_at,
                !.title = Get(update_data, "title", @),
                !.content = Get(update_data, "content", @)]]

\* (mutant of DeleteOne: nothing is removed)
DeleteNone(ns, id) == ns
\* delete_one({'_id': id})
DeleteOne(ns, id) ==
    LET Other(doc) == doc._id # id
    IN  SelectSeq(ns, Other)

NoteDetailPut(p) ==
    /\ Ready(p, "update_one")
    /\ LET data == req[p].args.data
           update_data == [keys |-> data.keys, title |-> data.title,
                           content |-> data.content, updated_at |-> now]
       IN  notes' = UpdateOne(notes, ObjectId(req[p].args.note_id), update_data)
    /\ Respond(p, req[p], Message(200, "Note updated"))
    /\ UNCHANGED <<users, nextNoteId, now, cookie, issued, accepted, author>>

NoteDetailDelete(p) ==
    /\ Ready(p, "delete_one")
    /\ notes' = DeleteOne(notes, ObjectId(req[p].args.note_id))
    /\ Respond(p, req[p], Message(200, "Note deleted"))
    /\ UNCHANGED <<users, nextNoteId, now, cookie, issued, accepted, author>>

(***************************************************************************)
(* The service: any client may issue any request; the clock advances.      *)
(***************************************************************************)
NoteIdInputs == {OidStr(i) : i \in 1 .. MaxNotes} \cup {NotAnOid}
PageInputs == {0, 1, 2}
PerPageInputs == {-1, 1, 500}

Accounts(p, names, passwords) ==
    \/ \E u \in names, w \in passwords : RegisterCheck(p, u, w)
    \/ RegisterInsert(p)
    \/ \E u \in names, w \in passwords : Login(p, u, w)
    \/ Logout(p)

Notebook(p, tokens, pages, sizes) ==
    \E t \in tokens :
        \/ \E d \in PostBodies, e \in {0, 1} : NotesPost(p, t, d, e)
        \/ \E page \in pages, pp \in sizes : NotesGet(p, t, page, pp)
        \/ \E id \in NoteIdInputs :
            \/ \E d \in PutBodies : NoteDetailFind(p, t, "PUT", id, d)
            \/ NoteDetailFind(p, t, "DELETE", id, NoBody)

Next ==
    \/ Tick
    \/ \E p \in Procs :
        \/ Receive(p)
        \/ Accounts(p, UsernameInputs, PasswordInputs)
        \/ \E t \in TokenInputs(p) : Dashboard(p, t)
        \/ Notebook(p, TokenInputs(p), PageInputs, PerPageInputs)
        \/ NoteDetailPut(p)
        \/ NoteDetailDelete(p)

Spec == Init /\ [][Next]_vars

(***************************************************************************)
(* The account endpoints alone, from the empty store.                      *)
(***************************************************************************)
NextAccounts ==
    \/ Tick
    \/ \E p \in Procs :
        \/ Receive(p)
        \/ Accounts(p, UsernameInputs, PasswordInputs)
        \/ \E t \in TokenInputs(p) : Dashboard(p, t)

SpecAccounts == Init /\ [][NextAccounts]_vars

(***************************************************************************)
(* The guarded endpoints, from the state in which alice and bob have       *)
(* registered and each has logged in on a client of their own.             *)
(***************************************************************************)
SeedUsers ==
    << [_id |-> 1, username |-> Alice,
        password |-> generate_password_hash(Secret1, 1), created_at |-> 0],
       [_id |-> 2, username |-> Bob,
        password |-> generate_password_hash(Secret2, 2), created_at |-> 0] >>
SeedToken(u) == jwt_encode(OidStr(u), JWT_EXPIRATION_DELTA, SECRET_KEY)

\* the accounts of that state (SpecAccounts reaches it at tick 0, with no request in progress)
Seeded ==
    /\ users = SeedUsers
    /\ cookie = [p \in Procs |-> SeedToken(IF p = 1 THEN 1 ELSE 2)]
    /\ issued = {[token |-> SeedToken(u), user_id |-> u, at |-> 0] : u \in 1 .. 2}
    /\ accepted = {[username |-> Alice, password |-> Secret1],
                   [username |-> Bob, password |-> Secret2]}
    /\ pc = [p \in Procs |-> "idle"]
    /\ req = [p \in Procs |-> NoRequest]
    /\ last = NoRequest

InitNotes ==
    /\ Seeded
    /\ notes = <<>>
    /\ nextNoteId = 1
    /\ author = <<>>
    /\ now = 0

NextNotes ==
    \/ Tick
    \/ \E p \in Procs :
        \/ Receive(p)
        \/ \E t \in OwnTokens(p) : Dashboard(p, t)
        \/ Notebook(p, OwnTokens(p), {1}, {DefaultPerPage})
        \/ NoteDetailPut(p)
        \/ NoteDetailDelete(p)

SpecNotes == InitNotes /\ [][NextNotes]_vars

(***************************************************************************)
(* GET /api/notes alone, over a store that already holds notes: more than  *)
(* MaxPerPage of them in the largest case, nine in ten alice's, the rest   *)
(* bob's, created at tick 0 and every other one updated at tick 1.         *)
(***************************************************************************)
Shelf(k) ==
    [i \in 1 .. k |->
        [_id |-> i, user_id |-> IF i % 10 = 0 THEN 2 ELSE 1,
         title |-> Empty, content |-> Hi, created_at |-> 0, updated_at |-> i % 2]]
ShelfSizes == {0, 3, MaxPerPage + 20}
ListPages == {-1, 0, 1, 2, 3}
ListSizes == {-1, 0, 2, DefaultPerPage, MaxPerPage, MaxPerPage + 1, 500}

InitList ==
    /\ Seeded
    /\ \E k \in ShelfSizes :
        /\ notes = Shelf(k)
        /\ nextNoteId = k + 1
        /\ author = [i \in 1 .. k |-> Shelf(k)[i].user_id]
    /\ now = 1

NextList ==
    \E p \in Procs :
        \/ Receive(p)
        \/ \E t \in OwnTokens(p), page \in ListPages, pp \in ListSizes :
                NotesGet(p, t, page, pp)

SpecList == InitList /\ [][NextList]_vars

(***************************************************************************)
(* The end-to-end sequence, from the empty store: each client registers a  *)
(* user of its own, logs in, creates a note, lists, deletes the note and   *)
(* lists again, sending nothing else; the two clients' sequences           *)
(* interleave and the clock advances.                                      *)
(***************************************************************************)
JourneyName(p) == IF p = 1 THEN Alice ELSE Bob
JourneyPassword(p) == IF p = 1 THEN Secret1 ELSE Secret2
HiBody == Json({"content"}, Empty, Hi)
Registered(p) == FindUser(users, JourneyName(p)) # NoDoc
\* client p holds a session cookie, and created a note with it
LoggedIn(p) == cookie[p] # NoToken
Created(p) == \E i \in 1 .. Len(author) : OidStr(author[i]) = cookie[p].user_id

NextJourney ==
    \/ Tick
    \/ \E p \in Procs :
        \/ Receive(p)
        \/ ~Registered(p) /\ RegisterCheck(p, JourneyName(p), JourneyPassword(p))
        \/ RegisterInsert(p)
        \/ Registered(p) /\ ~LoggedIn(p) /\ Login(p, JourneyName(p), JourneyPassword(p))
        \/ LoggedIn(p) /\ ~Created(p) /\ \E e \in {0, 1} : NotesPost(p, cookie[p], HiBody, e)
        \/ LoggedIn(p) /\ NotesGet(p, cookie[p], 1, DefaultPerPage)
        \/ /\ LoggedIn(p)
           /\ \E i \in 1 .. Len(notes) :
                /\ OidStr(notes[i].user_id) = cookie[p].user_id
                /\ NoteDetailFind(p, cookie[p], "DELETE", OidStr(notes[i]._id), NoBody)
        \/ NoteDetailDelete(p)

SpecJourney == Init /\ [][NextJourney]_vars

(***************************************************************************)
(* POST /register alone, from the empty store, with usernames and          *)
(* passwords at the bounds of the validation, bare and padded.             *)
(***************************************************************************)
Fifty == Str("fifty", MaxUsernameLen)
RegisterNames ==
    { Empty, Padded(Empty), Str("ab", MinUsernameLen - 1), Padded(Str("ab", MinUsernameLen - 1)),
      Str("abc", MinUsernameLen), Fifty, Padded(Fifty), Str("long", MaxUsernameLen + 1) }
RegisterPasswords == {Empty, Str("five", MinPasswordLen - 1), Str("sixsix", MinPasswordLen)}

NextRegister ==
    \E p \in Procs :
        \/ Receive(p)
        \/ \E u \in RegisterNames, w \in RegisterPasswords : RegisterCheck(p, u, w)
        \/ RegisterInsert(p)

SpecRegister == Init /\ [][NextRegister]_vars

(***************************************************************************)
(* Every handler together, from the empty store: each client sends any     *)
(* request, with its own cookie and one body per kind of request, and      *)
(* opens the dashboard with its cookie or a token issued earlier.          *)
(***************************************************************************)
TitleBody == Json({"title"}, Title, Empty)

NextRecords ==
    \/ Tick
    \/ \E p \in Procs :
        \/ Receive(p)
        \/ Accounts(p, {Alice}, {Secret1, Secret2})
        \/ \E t \in {cookie[p]} \cup {g.token : g \in issued} : Dashboard(p, t)
        \/ NotesPost(p, cookie[p], HiBody, 0)
        \/ NotesGet(p, cookie[p], 1, DefaultPerPage)
        \/ \E id \in NoteIdInputs :
            \/ NoteDetailFind(p, cookie[p], "PUT", id, TitleBody)
            \/ NoteDetailFind(p, cookie[p], "DELETE", id, NoBody)
        \/ NoteDetailPut(p)
        \/ NoteDetailDelete(p)

SpecRecords == Init /\ [][NextRecords]_vars

(***************************************************************************)
(* PUT and DELETE on one note by its owner from two sessions: alice is     *)
(* logged in on both clients and owns the one stored note (SpecRecords     *)
(* reaches that state).                                                    *)
(***************************************************************************)
InRace ==
    /\ users = <<SeedUsers[1]>>
    /\ cookie = [p \in Procs |-> SeedToken(1)]
    /\ issued = {[token |-> SeedToken(1), user_id |-> 1, at |-> 0]}
    /\ accepted = {[username |-> Alice, password |-> Secret1]}
    /\ notes = << [_id |-> 1, user_id |-> 1, title |-> Empty, content |-> Hi,
                   created_at |-> 0, updated_at |-> 0] >>
    /\ nextNoteId = 2
    /\ author = <<1>>
    /\ pc = [p \in Procs |-> "idle"]
    /\ req = [p \in Procs |-> NoRequest]
    /\ last = NoRequest

InitRace == InRace /\ now = 0

NextRace ==
    \/ Tick
    \/ \E p \in Procs :
        \/ Receive(p)
        \/ \E d \in PutBodies : NoteDetailFind(p, cookie[p], "PUT", OidStr(1), d)
        \/ NoteDetailFind(p, cookie[p], "DELETE", OidStr(1), NoBody)
        \/ NoteDetailPut(p)
        \/ NoteDetailDelete(p)

SpecRace == InitRace /\ [][NextRace]_vars

(***************************************************************************)
(* Properties.                                                             *)
(***************************************************************************)
Answered(ops) == last.op \in ops
\* the guard's answer or the handler's first answer: it carries the time of the guard's check
Checked == "at" \in DOMAIN last
NoteOf(id_str) == ObjectId(id_str)
Exists(id_str) == IsOidStr(id_str) /\ NoteOf(id_str) \in 1 .. Len(author)

\* C1: a note created by user A is never in a list answered to another user B,
\* a PUT or DELETE on its id by B is answered 404 Note not found, and only a
\* storage write of a request of A's ever changes or removes it.
C1_ListedOwn ==
    Answered({"list"}) /\ last.resp.status = 200 =>
        \A i \in 1 .. Len(last.resp.body.notes) :
            author[NoteOf(last.resp.body.notes[i]._id)] = ObjectId(last.token.user_id)
C1_ForeignNotFound ==
    ( /\ Answered({"PUT", "DELETE"})
      /\ last.current_user_id # NotAnOid
      /\ Exists(last.args.note_id)
      /\ author[NoteOf(last.args.note_id)] # ObjectId(last.current_user_id) )
    => last.resp = Error(404, "Note not found")
C1_OwnerWrites ==
    \A i \in 1 .. Len(notes) :
        (\A j \in 1 .. Len(notes') : notes'[j] # notes[i]) =>
            \E p \in Procs :
                /\ pc[p] \in {"update_one", "delete_one"}
                /\ pc'[p] = "idle"
                /\ req[p].args.note_id = OidStr(notes[i]._id)
                /\ ObjectId(req[p].current_user_id) = author[notes[i]._id]
C1_Isolation == [](C1_ListedOwn /\ C1_ForeignNotFound) /\ [][C1_OwnerWrites]_vars
\* a PUT or DELETE by another user on a note that is in the store was answered 404
C1_Witness ==
    /\ Answered({"PUT", "DELETE"})
    /\ last.resp.status = 404
    /\ \E i \in 1 .. Len(notes) :
        /\ OidStr(notes[i]._id) = last.args.note_id
        /\ notes[i].user_id # ObjectId(last.current_user_id)
        /\ author[notes[i]._id] = notes[i].user_id

\* the token is well formed, signed with the secret and not expired at time t
TokenValid(token, t) ==
    /\ token.kind = "jwt"
    /\ token.key = SECRET_KEY
    /\ t < token.exp * TicksPerSec
GuardedOps == {"dashboard", "create", "list", "PUT", "DELETE"}

\* C2: on every guarded endpoint a request with no token, or with an expired,
\* malformed or foreign-signed token, is answered by the redirect to login, its
\* handler is not called and no store changes; with a valid token the handler
\* is called with exactly the user id in the token.
C2_Answer ==
    Answered(GuardedOps) /\ Checked =>
        IF TokenValid(last.token, last.at)
        THEN last.current_user_id = last.token.user_id /\ last.resp # RedirectLogin
        ELSE last.current_user_id = NotAnOid /\ last.resp = RedirectLogin
C2_Step ==
    /\ \A p \in Procs :
        pc[p] = "idle" /\ pc'[p] \in {"update_one", "delete_one"} =>
            /\ TokenValid(req'[p].token, now)
            /\ req'[p].current_user_id = req'[p].token.user_id
    /\ ( /\ last = NoRequest /\ Answered(GuardedOps)' /\ Checked'
         /\ ~TokenValid(last'.token, now) )
       => /\ <<users, notes, nextNoteId, now, author>>' = <<users, notes, nextNoteId, now, author>>
          /\ pc' = pc
C2_TokenRequired == []C2_Answer /\ [][C2_Step]_vars
\* an issued token, presented after it expired on a notes endpoint, was redirected
C2_Witness ==
    /\ Answered(GuardedOps \ {"dashboard"})
    /\ Checked
    /\ \E g \in issued : g.token = last.token
    /\ last.at >= last.token.exp * TicksPerSec
    /\ last.resp = RedirectLogin

\* the instant the claim gives as a grant's expiry, and the one the token carries
ClaimedExpiry(g) == g.at + JWT_EXPIRATION_DELTA
EncodedExpiry(g) == NumericDate(g.at + JWT_EXPIRATION_DELTA) * TicksPerSec
Presented(g) == Answered(GuardedOps) /\ Checked /\ last.token = g.token

\* C3 as claimed: a token issued at time t for user U validates to U at every
\* time before t + 24 hours and is redirected to login from then on.
C3_Claimed ==
    \A g \in issued :
        Presented(g) =>
            IF last.at < ClaimedExpiry(g)
            THEN last.current_user_id = OidStr(g.user_id) /\ last.resp # RedirectLogin
            ELSE last.resp = RedirectLogin
\* C3: a token issued at time t for user U expires at t + 24 hours rounded
\* down to the whole second: it validates to U at every time before that
\* instant and is redirected to login from that instant on.
C3_Expiry ==
    \A g \in issued :
        Presented(g) =>
            IF last.at < EncodedExpiry(g)
            THEN last.current_user_id = OidStr(g.user_id) /\ last.resp # RedirectLogin
            ELSE last.resp = RedirectLogin
\* a token issued within a second was presented at its expiry instant and redirected
C3_Witness ==
    \E g \in issued :
        /\ Presented(g)
        /\ g.at % TicksPerSec # 0
        /\ last.at = EncodedExpiry(g)
        /\ last.resp = RedirectLogin

AcceptedNames == {r.username : r \in accepted}
\* client p's POST /register reaches the existence check in this step
Registering(p) ==
    /\ pc[p] = "idle"
    /\ \/ pc'[p] = "register_insert"
       \/ last = NoRequest /\ Answered({"register"})' /\ last'.client = p
RegisteringName(p) ==
    IF pc'[p] = "register_insert" THEN req'[p].username ELSE last'.username

\* C4 as claimed: once a registration of username u was answered 201, every
\* later registration of u is answered by the duplicate-username error and
\* changes no user document.
C4_Step ==
    \A p \in Procs :
        Registering(p) /\ RegisteringName(p) \in AcceptedNames =>
            /\ pc'[p] = "idle"
            /\ last'.resp = Error(400, "Username already exists")
            /\ users' = users
C4_Claimed == [][C4_Step]_vars
\* C4: once a registration of username u was answered 201, every later
\* registration of u is answered 400 and changes no user document; the 400 is
\* the duplicate-username error when the password has at least 6 characters
\* (a shorter password is answered by the input validation's error).
C4_AmendedStep ==
    \A p \in Procs :
        Registering(p) /\ RegisteringName(p) \in AcceptedNames =>
            /\ pc'[p] = "idle"
            /\ last'.resp.status = 400
            /\ len(last'.password) >= MinPasswordLen =>
                    last'.resp = Error(400, "Username already exists")
            /\ users' = users
C4_Duplicate == [][C4_AmendedStep]_vars
\* a registration of an accepted username with another password was answered duplicate
C4_Witness ==
    /\ Answered({"register"})
    /\ last.resp = Error(400, "Username already exists")
    /\ \E r \in accepted : r.username = last.username /\ r.password # last.password

\* C5: no two user documents share a username.
C5_UniqueUsernames ==
    \A i, j \in 1 .. Len(users) : users[i].username = users[j].username => i = j

LoginPair == [username |-> last.username, password |-> last.password]
\* C6 as claimed: a login with an unknown username and a login with a known
\* username and a wrong password get the same answer: 401, the same body, no cookie.
C6_Claimed ==
    Answered({"login"}) /\ LoginPair \notin accepted =>
        last.resp = Error(401, "Invalid credentials")
\* C6: a login with a non-empty password and an unknown (non-empty) username,
\* and one with a known username and a wrong non-empty password get the same
\* answer: 401, the same body, no cookie; the answer changes no store.
C6_Same ==
    ( /\ Answered({"login"})
      /\ LoginPair \notin accepted
      /\ len(last.username) > 0
      /\ len(last.password) > 0 )
    => last.resp = Error(401, "Invalid credentials")
C6_Step ==
    last = NoRequest /\ Answered({"login"})' /\ last'.resp.status = 401 =>
        UNCHANGED <<users, notes, nextNoteId, cookie, issued, accepted, author>>
C6_Indistinguishable == []C6_Same /\ [][C6_Step]_vars
\* a login with a registered username and a wrong password was answered 401
C6_Witness ==
    /\ Answered({"login"})
    /\ last.username \in AcceptedNames
    /\ LoginPair \notin accepted
    /\ len(last.password) > 0
    /\ last.resp = Error(401, "Invalid credentials")

\* C7: once register(u, p) was answered 201, login(u, q) is answered 200 with a
\* cookie for a user document of u exactly when q = p, and 401 for every other
\* q (q not empty: an empty password is answered 400 before any lookup).
C7_LoginIffPassword ==
    Answered({"login"}) /\ len(last.password) > 0 =>
        \A r \in accepted :
            r.username = last.username =>
                IF last.password = r.password
                THEN /\ last.resp.status = 200
                     /\ last.resp.cookie.kind = "jwt"
                     /\ \E i \in 1 .. Len(users) :
                            /\ users[i].username = last.username
                            /\ last.resp.cookie.user_id = OidStr(users[i]._id)
                ELSE last.resp.status = 401

\* C8: every stored note has a content of 1 to 10000 characters and a title of
\* at most 200 characters.
C8_NoteBounds ==
    \A i \in 1 .. Len(notes) :
        /\ len(notes[i].content) >= 1
        /\ len(notes[i].content) <= MaxContentLen
        /\ len(notes[i].title) <= MaxTitleLen

Listed == Answered({"list"}) /\ last.current_user_id # NotAnOid

\* the clamp alone: a list request with per_page above 100 is answered exactly
\* as the same request with per_page = 100 is, whatever the page
SameAsHundred ==
    Listed /\ last.args.per_page > MaxPerPage =>
        last.resp = NotesList(notes, last.current_user_id, last.args.page, MaxPerPage)

\* C9: for every page, a list request with per_page above 100 is answered
\* exactly as the same request with per_page = 100 is, and it is served (200),
\* not rejected.
C9_ClampedAndServed ==
    Listed /\ last.args.per_page > MaxPerPage =>
        /\ last.resp = NotesList(notes, last.current_user_id, last.args.page, MaxPerPage)
        /\ last.resp.status = 200

\* C10: a list request with page <= 0 is answered as the same request with
\* page = 1 is, or rejected with 400; never with 500 or another slice (stated
\* for the page sizes of 1 and more).
C10_NonPositivePage ==
    Listed /\ last.args.page <= 0 /\ last.args.per_page >= 1 =>
        \/ last.resp = NotesList(notes, last.current_user_id, 1, last.args.per_page)
        \/ last.resp.status = 400

PutDone(p) == pc[p] = "update_one" /\ pc'[p] = "idle"

\* C11: the storage write of a PUT answered 200 changes, on the note of the
\* request, only the title and content present in the body and updated_at,
\* set to the current time whatever the body holds; the note's _id, user_id,
\* created_at and absent fields, every other note and every user document
\* keep their values.
C11_Step ==
    \A p \in Procs :
        PutDone(p) =>
            LET id == ObjectId(req[p].args.note_id)
                data == req[p].args.data
            IN  /\ last'.resp = Message(200, "Note updated")
                /\ users' = users
                /\ Len(notes') = Len(notes)
                /\ \A i \in 1 .. Len(notes) :
                    IF notes[i]._id # id THEN notes'[i] = notes[i]
                    ELSE /\ notes'[i]._id = notes[i]._id
                         /\ notes'[i].user_id = notes[i].user_id
                         /\ notes'[i].created_at = notes[i].created_at
                         /\ notes'[i].updated_at = now
                         /\ notes'[i].title =
                                IF "title" \in data.keys THEN data.title ELSE notes[i].title
                         /\ notes'[i].content =
                                IF "content" \in data.keys THEN data.content
                                ELSE notes[i].content
C11_PutFrame == [][C11_Step]_vars
\* a PUT with neither field was answered 200: the note kept its content and
\* has the time of the write, later than its creation, as updated_at
C11_Witness ==
    /\ Answered({"PUT"})
    /\ last.resp = Message(200, "Note updated")
    /\ last.args.data.keys = {}
    /\ \E i \in 1 .. Len(notes) :
        /\ notes[i]._id = ObjectId(last.args.note_id)
        /\ notes[i].updated_at = now
        /\ notes[i].created_at < now
        /\ len(notes[i].content) >= 1

Max(a, b) == IF a > b THEN a ELSE b
\* the positions in the store of the notes of the user a list request is made for
Mine == {i \in 1 .. Len(notes) : notes[i].user_id = ObjectId(last.current_user_id)}
Newer(t) == Cardinality({i \in Mine : notes[i].updated_at > t})
NotOlder(t) == Cardinality({i \in Mine : notes[i].updated_at >= t})

\* C12: for page >= 1 and per_page in 1..100 a list request of user U is
\* answered 200 with notes of U only, each once, in descending order of
\* updated_at, and they are the positions (page-1)*per_page + 1 .. page*per_page
\* of U's notes in that order (position q holds a note with fewer than q notes
\* of U newer than it and at least q notes of U not older); the request
\* changes no store.
C12_Slice ==
    ( /\ Listed
      /\ last.args.page >= 1
      /\ last.args.per_page \in 1 .. MaxPerPage )
    => LET skip == (last.args.page - 1) * last.args.per_page
           out == last.resp.body.notes
       IN  /\ last.resp.status = 200
           /\ Len(out) = Max(0, Min(last.args.per_page, Cardinality(Mine) - skip))
           /\ \A k \in 1 .. Len(out) :
                /\ \E i \in Mine : out[k] = Projected(notes[i])
                /\ Newer(out[k].updated_at) < skip + k
                /\ NotOlder(out[k].updated_at) >= skip + k
                /\ \A j \in 1 .. Len(out) :
                    /\ j < k => out[j].updated_at >= out[k].updated_at
                    /\ j # k => out[j]._id # out[k]._id
C12_Step ==
    last = NoRequest /\ Answered({"list"})' =>
        UNCHANGED <<users, notes, nextNoteId, now, cookie, issued, accepted, author>>
C12_Page == []C12_Slice /\ [][C12_Step]_vars
\* the second page of 100 was answered with the rest of the user's notes
C12_Witness ==
    /\ Listed
    /\ last.args.page = 2
    /\ last.args.per_page = MaxPerPage
    /\ last.resp.status = 200
    /\ Len(last.resp.body.notes) > 0
    /\ Len(last.resp.body.notes) = Cardinality(Mine) - MaxPerPage

\* the notes in the store that the user of the answered request created
OwnStored ==
    LET Own(doc) == author[doc._id] = ObjectId(last.current_user_id)
    IN  SelectSeq(notes, Own)

\* C13: in the sequence register, login, create, list, delete, list of a
\* client (its token not expired) the answers are 201; 200 with a session
\* cookie for the registered user; 201 with the id of the stored note; the
\* list of exactly that note; 200 with the note gone; the empty list.  A
\* list holds a note exactly while it was created by the user and is not
\* deleted, and only a delete of its author removes a note.
C13_Answers ==
    /\ Answered({"register"}) => last.resp = Message(201, "User created successfully")
    /\ Answered({"login"}) =>
        /\ last.resp.status = 200
        /\ last.resp.cookie.kind = "jwt"
        /\ FindUser(users, last.username)._id = ObjectId(last.resp.cookie.user_id)
    /\ Answered({"create"}) /\ TokenValid(last.token, last.at) =>
        /\ last.resp.status = 201
        /\ Len(OwnStored) = 1
        /\ OwnStored[1]._id = ObjectId(last.resp.body.note_id)
        /\ OwnStored[1].user_id = ObjectId(last.current_user_id)
        /\ OwnStored[1].title = Empty
        /\ OwnStored[1].content = Hi
    /\ Answered({"list"}) /\ TokenValid(last.token, last.at) =>
        /\ last.resp.status = 200
        /\ last.resp.body.notes = [i \in 1 .. Len(OwnStored) |-> Projected(OwnStored[i])]
        /\ Len(OwnStored) = IF \E i \in 1 .. Len(author) :
                                    /\ author[i] = ObjectId(last.current_user_id)
                                    /\ \E j \in 1 .. Len(notes) : notes[j]._id = i
                            THEN 1 ELSE 0
    /\ Answered({"DELETE"}) /\ ~Checked =>
        /\ last.resp = Message(200, "Note deleted")
        /\ \A j \in 1 .. Len(notes) : notes[j]._id # ObjectId(last.args.note_id)
C13_Step ==
    \A i \in 1 .. Len(notes) :
        (\A j \in 1 .. Len(notes') : notes'[j]._id # notes[i]._id) =>
            \E p \in Procs :
                /\ pc[p] = "delete_one"
                /\ pc'[p] = "idle"
                /\ req[p].args.note_id = OidStr(notes[i]._id)
                /\ ObjectId(req[p].current_user_id) = author[notes[i]._id]
C13_EndToEnd == []C13_Answers /\ [][C13_Step]_vars
\* the last list of the sequence: the user's note was created and deleted,
\* and the list is empty
C13_Witness ==
    /\ Listed
    /\ last.resp.status = 200
    /\ last.resp.body.notes = <<>>
    /\ \E i \in 1 .. Len(author) :
        /\ author[i] = ObjectId(last.current_user_id)
        /\ \A j \in 1 .. Len(notes) : notes[j]._id # i

UsernameLengths == MinUsernameLen .. MaxUsernameLen
\* a registration is answered, or goes on to its insert, in this step
RegisterAnswered == last = NoRequest /\ Answered({"register"})'

\* C14 as claimed: a registration with a username of a length outside 3..50,
\* or with a password of fewer than 6 characters, is answered 400.
C14_Claimed ==
    ( /\ Answered({"register"})
      /\ \/ len(last.raw) \notin UsernameLengths
         \/ len(last.password) < MinPasswordLen )
    => last.resp.status = 400
\* C14: a registration with a username whose length after stripping the
\* surrounding whitespace is outside 3..50, or with a password of fewer than
\* 6 characters, is answered 400 and inserts no user document; every user
\* document has a username of 3 to 50 characters.
C14_Rejected ==
    ( /\ Answered({"register"})
      /\ \/ len(last.username) \notin UsernameLengths
         \/ len(last.password) < MinPasswordLen )
    => last.resp.status = 400
C14_Stored ==
    \A i \in 1 .. Len(users) : len(users[i].username) \in UsernameLengths
C14_Step ==
    RegisterAnswered /\ last'.resp.status = 400 => users' = users
C14_Validation == [](C14_Rejected /\ C14_Stored) /\ [][C14_Step]_vars
\* a username of 51 characters was rejected, one of 50 characters is stored
C14_Witness ==
    /\ Answered({"register"})
    /\ len(last.username) = MaxUsernameLen + 1
    /\ len(last.password) >= MinPasswordLen
    /\ last.resp.status = 400
    /\ \E i \in 1 .. Len(users) : len(users[i].username) = MaxUsernameLen

\* C15: a user document, once inserted, is never changed and never removed:
\* every step of every handler leaves it in the collection with the same
\* _id, username, password hash and created_at.
C15_Step ==
    /\ Len(users') >= Len(users)
    /\ \A i \in 1 .. Len(users) : users'[i] = users[i]
C15_UserImmutable == [][C15_Step]_vars
\* a user registered earlier is unchanged after logins and a note request of
\* theirs, and after a second registration of the same username
C15_Witness ==
    /\ Answered({"PUT", "DELETE"})
    /\ last.resp.status = 200
    /\ Len(users) = 2
    /\ users[1].username = users[2].username
    /\ users[1].password = generate_password_hash(Secret1, 1)
    /\ users[1].created_at < now

\* C16: whatever per_page is, zero and negative values included, a list
\* answered to an authenticated request holds at most 100 notes.
C16_AtMostHundred ==
    Listed /\ last.resp.status = 200 => Len(last.resp.body.notes) <= MaxPerPage

\* update_data applied to a note, field by field
Applied(doc, data, t) ==
    [_id |-> doc._id, user_id |-> doc.user_id, created_at |-> doc.created_at,
     title |-> IF "title" \in data.keys THEN data.title ELSE doc.title,
     content |-> IF "content" \in data.keys THEN data.content ELSE doc.content,
     updated_at |-> t]
\* another client's PUT on the same note is between its find_one and its update_one
Racing(p) ==
    \E q \in Procs \ {p} :
        pc[q] = "update_one" /\ req[q].args.note_id = req[p].args.note_id

\* C17: of two concurrent PUTs of the owner on one note each storage write
\* applies its whole update to the note as the write before left it: a field
\* the later write sets holds its value, a field it does not set keeps the
\* earlier write's, and right after a write the note holds every field of
\* that write.
C17_Step ==
    \A p \in Procs :
        PutDone(p) /\ (Racing(p) \/ Racing(p)') =>
            notes' = [i \in 1 .. Len(notes) |->
                        IF notes[i]._id = ObjectId(req[p].args.note_id)
                        THEN Applied(notes[i], req[p].args.data, now)
                        ELSE notes[i]]
C17_Latest ==
    Answered({"PUT"}) /\ last.resp.status = 200 =>
        \A i \in 1 .. Len(notes) :
            notes[i]._id = ObjectId(last.args.note_id) =>
                notes[i] = Applied(notes[i], last.args.data, now)
C17_LastWriteWins == []C17_Latest /\ [][C17_Step]_vars
\* two PUTs found the note before either wrote: the first write, of a title
\* and a content, is in the store whole, and the write of the other's title
\* is still to come
C17_Witness ==
    /\ Answered({"PUT"})
    /\ last.resp.status = 200
    /\ last.args.data = Json({"title", "content"}, LongTitle, Big)
    /\ \E q \in Procs :
        /\ pc[q] = "update_one"
        /\ req[q].args.note_id = last.args.note_id
        /\ req[q].args.data = Json({"title"}, Title, Empty)
    /\ \E i \in 1 .. Len(notes) :
        /\ notes[i]._id = ObjectId(last.args.note_id)
        /\ notes[i].title = LongTitle
        /\ notes[i].content = Big

DeleteDone(p) == pc[p] = "delete_one" /\ pc'[p] = "idle"
Stored(ns, id_str) == \E i \in 1 .. Len(ns) : ns[i]._id = ObjectId(id_str)

\* C18: a PUT answered 200 wrote to a note that was in the store at its
\* storage write, a DELETE answered 200 removed a note that was in the store
\* at its storage write, and no PUT brings a deleted note back.
C18_Step ==
    \A p \in Procs :
        /\ PutDone(p) /\ last'.resp.status = 200 => Stored(notes, req[p].args.note_id)
        /\ DeleteDone(p) /\ last'.resp.status = 200 => Stored(notes, req[p].args.note_id)
        /\ PutDone(p) /\ ~Stored(notes, req[p].args.note_id) =>
                ~Stored(notes', req[p].args.note_id)
C18_EffectHappened == [][C18_Step]_vars

IssuedTokens == {g.token : g \in issued}

\* C19: the answer of the guard to a token that login issued is a function
\* of the token, the secret and the time of the request alone: until its
\* expiry the token validates to its user whatever was requested since,
\* also after the logout of the client it was issued to, and it is refused
\* from its expiry on; logout changes nothing on the server and only clears
\* the cookie of its client.
C19_Pure ==
    Answered(GuardedOps) /\ Checked /\ last.token \in IssuedTokens =>
        IF last.token.key = SECRET_KEY /\ last.at < last.token.exp * TicksPerSec
        THEN last.current_user_id = last.token.user_id /\ last.resp # RedirectLogin
        ELSE last.current_user_id = NotAnOid /\ last.resp = RedirectLogin
C19_Step ==
    last = NoRequest /\ Answered({"logout"})' =>
        /\ UNCHANGED <<users, notes, nextNoteId, now, issued, accepted, author>>
        /\ last'.resp.cookie = NoToken
C19_Stateless == []C19_Pure /\ [][C19_Step]_vars
\* every client that logged in has logged out, and a token issued before
\* still opens the dashboard
C19_Witness ==
    /\ Answered({"dashboard"})
    /\ last.token \in IssuedTokens
    /\ \A p \in Procs : cookie[p] = NoToken
    /\ last.resp.status = 200

\* C20: right after a create answered 201 the stored note has created_at
\* equal to updated_at, also when the clock advanced during the request; and
\* every stored note has updated_at >= created_at.
C20_Stamps ==
    /\ Answered({"create"}) /\ last.resp.status = 201 =>
        \A i \in 1 .. Len(notes) :
            notes[i]._id = ObjectId(last.resp.body.note_id) =>
                notes[i].created_at = notes[i].updated_at
    /\ \A i \in 1 .. Len(notes) : notes[i].updated_at >= notes[i].created_at
\* the part of C20 that holds: no stored note was updated before it was created
NotUpdatedBeforeCreated ==
    \A i \in 1 .. Len(notes) : notes[i].updated_at >= notes[i].created_at
====
